---- MODULE Spec2Model ----
(***************************************************************************)
(* Acquisition/logging core of the dual CO2 logger: class DualCO2Logger of *)
(* serial_communicaiton_GUI_simple.py and serial_communicaiton_GUI.py      *)
(* (Spec, SpecPlot), and after it the two scripts it grew from:            *)
(* serial_communicaiton_2sensors2file.py (SpecScript) and                  *)
(* serial_communicaiton_write2file.py (SpecSingle).                        *)
(* One reader thread per sensor stores the latest line of its serial port  *)
(* in the shared table `data`; one logger thread snapshots the table once  *)
(* per tick and appends a CSV row; start() and stop() launch and stop them.*)
(*                                                                         *)
(* A thread is named <<k, role>>: k is the number of the start() call that *)
(* launched it, role is "logger" or the sensor name.  Lines are sequences  *)
(* of one-character strings.  Timestamps are left out of the rows.         *)
(***************************************************************************)
EXTENDS Integers, Sequences, FiniteSets, TLC

\* ------------------------------------------------------------------ bounds
MaxStarts == 2          \* start() calls in one run
MaxRows   == 2          \* logger loop iterations (ticks), all loggers together
MaxReads  == 2          \* non-empty lines received, all readers together
MaxFaults == 1          \* transport failures, all readers together
RestartRows  == 1       \* ticks in a run with more than one start() call
RestartReads == 1       \* non-empty lines in a run with more than one start()
RestartFaults == 0      \* transport failures in a run with more than one start()

\* A run is one session examined in depth, or several start() calls with
\* fewer inputs.
Budgets ==
  { [starts |-> 1, rows |-> MaxRows, reads |-> MaxReads, faults |-> MaxFaults],
    [starts |-> MaxStarts, rows |-> RestartRows, reads |-> RestartReads,
     faults |-> RestartFaults] }

\* --------------------------------------------------------------- constants
WAKE_BYTES == 30        \* for _ in range(30): ser.write(b"Z")

PORTS == <<"CO2_inlet_ppm", "CO2_outlet_ppm">>
Sensors == {PORTS[i] : i \in 1..Len(PORTS)}

None == <<"None">>      \* Python's None (no line is a 1-tuple of a long string)

Roles   == {"logger"} \cup Sensors
Threads == (1..MaxStarts) \X Roles
Loggers == (1..MaxStarts) \X {"logger"}
Readers == (1..MaxStarts) \X Sensors
NoThread == <<0, "none">>

\* What readline() may return within its timeout: nothing (timeout), a bare
\* line end, a numeric line, a line that is no number.
RawLines ==
  { <<>>,
    <<"\r", "\n">>,
    <<"4", "1", "2", ".", "5", "\r", "\n">>,
    <<"a", "b", "c", "\r", "\n">> }

\* The writes made before the one that raises, when one does: none, half of
\* the wake bytes, all the wake bytes (the command's write raises).
WriteFailAt == {0, 15, 30}

Whitespace == {" ", "\t", "\r", "\n"}
Digits == {"0", "1", "2", "3", "4", "5", "6", "7", "8", "9"}

\* str.strip(): leading and trailing whitespace removed.
RECURSIVE LStrip(_)
LStrip(s) ==
  IF s # <<>> /\ Head(s) \in Whitespace THEN LStrip(Tail(s)) ELSE s

RECURSIVE RStrip(_)
RStrip(s) ==
  IF s # <<>> /\ s[Len(s)] \in Whitespace
    THEN RStrip(SubSeq(s, 1, Len(s) - 1))
    ELSE s

Strip(s) == RStrip(LStrip(s))

\* The lines a reader can store.
Lines == {Strip(r) : r \in RawLines} \ {<<>>}

\* float(text) succeeds: over the characters of RawLines (digits, ".",
\* letters a-c, whitespace) that is a digit string with at most one point.
CountDots(s) == Cardinality({i \in 1..Len(s) : s[i] = "."})
CountDigits(s) == Cardinality({i \in 1..Len(s) : s[i] \in Digits})
IsFloat(text) ==
  LET s == Strip(text) IN
    /\ \A i \in 1..Len(s) : s[i] \in Digits \cup {"."}
    /\ CountDots(s) <= 1
    /\ CountDigits(s) >= 1

\* Python truthiness of a table value: None and "" are falsy.
Truthy(v) == v # None /\ v # <<>>

\* Mutant of CsvField: a default value in place of a missing reading.
CsvFieldDefault(v) == IF v = None THEN <<"0">> ELSE v

\* csv.writer writes None as an empty field.
CsvField(v) == IF v = None THEN <<>> ELSE v

HeaderRow == [kind |-> "header", fields |-> PORTS]
DataRow(snap) == [kind |-> "data", fields |-> [i \in 1..Len(PORTS) |-> CsvField(snap[PORTS[i]])]]

VARIABLES
  stop_event,    \* self.stop_event.is_set()
  data_lock,     \* the thread holding self.data_lock, or NoThread
  data,          \* self.data: sensor -> last line or None
  threads,       \* self.threads
  row_callback,  \* self.row_callback is set (plotting variant)
  pc,            \* thread -> where it is
  line,          \* reader -> its local `line`
  row,           \* logger -> its local snapshot (`row`, or inlet/outlet)
  log,           \* logger -> rows written through its file object
  flushed,       \* logger -> rows of log flushed to storage
  chan,          \* reader -> its serial port: "none", "open", "closed"
  tx,            \* reader -> what it has written to its port, in order
  session,       \* start() calls made so far
  startPc,       \* k -> where the k-th start() call is
  nextPort,      \* k -> index in PORTS of the next reader start() launches
  stopPc,        \* where the stop() call is: "idle", "joining"
  stoppedUpTo,   \* history: session at the last stop() call
  ticks,         \* history: logger -> loop iterations entered
  stored,        \* history: sensor -> last line a reader stored, or None
  callbacks,     \* history: logger -> row_callback invocations
  reads,         \* history: non-empty lines received so far
  faults,        \* history: transport failures so far
  held,          \* history (dual-sensor script): the tables sensor_data has held
  budget         \* the bounds of this run, fixed at the start

vars == <<stop_event, data_lock, data, threads, row_callback, pc, line, row,
          log, flushed, chan, tx, session, startPc, nextPort, stopPc,
          stoppedUpTo, ticks, stored, callbacks, reads, faults, held, budget>>

\* What each group of actions leaves alone.
apiVars    == <<session, startPc, nextPort, stopPc, stoppedUpTo, budget>>
readerVars == <<line, chan, tx, reads, faults>>
loggerVars == <<row, log, flushed, ticks, callbacks>>
objectVars == <<stop_event, threads, row_callback>>

\* DualCO2Logger.__init__
InitData == [s \in Sensors |-> None]

InitLogger(cb) ==
  /\ stop_event = FALSE
  /\ data_lock = NoThread
  /\ data = InitData
  /\ threads = <<>>
  /\ row_callback = cb
  /\ pc = [t \in Threads |-> "none"]
  /\ line = [t \in Readers |-> <<>>]
  /\ row = [t \in Loggers |-> InitData]
  /\ log = [t \in Loggers |-> <<>>]
  /\ flushed = [t \in Loggers |-> 0]
  /\ chan = [t \in Readers |-> "none"]
  /\ tx = [t \in Readers |-> <<>>]
  /\ session = 0
  /\ startPc = [k \in 1..MaxStarts |-> "none"]
  /\ nextPort = [k \in 1..MaxStarts |-> 1]
  /\ stopPc = "idle"
  /\ stoppedUpTo = 0
  /\ ticks = [t \in Loggers |-> 0]
  /\ stored = InitData
  /\ callbacks = [t \in Loggers |-> 0]
  /\ reads = 0
  /\ faults = 0
  /\ held = {InitData}
  /\ budget \in Budgets

\* serial_communicaiton_GUI_simple.py: no row callback exists.
Init == InitLogger(FALSE)

\* serial_communicaiton_GUI.py: CO2App sets logger.row_callback = update_plot.
InitPlot == InitLogger(TRUE)

Terminated(t) == pc[t] \in {"done", "crashed"}
Live(t) == pc[t] \notin {"none", "done", "crashed"}

\* ------------------------------------------------------------ reader thread
\* A transport call raises serial.SerialException.
Fault ==
  /\ faults < budget.faults
  /\ faults' = faults + 1

\* b"Z" written n times.
RECURSIVE WakeBytes(_)
WakeBytes(n) == IF n = 0 THEN <<>> ELSE <<"Z">> \o WakeBytes(n - 1)

\* _activate_sensor: for _ in range(30): ser.write(b"Z"); time.sleep(0.1)
\* What the channel has received when every write succeeds.
ActivateSensor == WakeBytes(WAKE_BYTES)

\* The writes of the start-up, in order: the activation, then
\* ser.write(b"r\r\n").
StartupWrites == ActivateSensor \o <<"r\r\n">>

\* The thread's start-up, which touches only its own port:
\*   ser = serial.Serial(port, ...)   SerialException is caught: return
\*   time.sleep(2); self._activate_sensor(ser); time.sleep(1)
\*   ser.write(b"r\r\n")
\* A write that raises ends the thread with the port left open; n is the
\* number of writes made before it.  self.serials[name] = ser keeps the port
\* referenced; nothing reads it.
ReaderStartup(t) ==
  /\ pc[t] = "start"
  /\ \/ /\ chan' = [chan EXCEPT ![t] = "open"]
        /\ tx' = [tx EXCEPT ![t] = StartupWrites]
        /\ pc' = [pc EXCEPT ![t] = "loop"]
        /\ UNCHANGED faults
     \/ /\ Fault
        /\ pc' = [pc EXCEPT ![t] = "done"]
        /\ UNCHANGED <<chan, tx>>
     \/ \E n \in WriteFailAt :
          /\ Fault
          /\ chan' = [chan EXCEPT ![t] = "open"]
          /\ tx' = [tx EXCEPT ![t] = SubSeq(StartupWrites, 1, n)]
          /\ pc' = [pc EXCEPT ![t] = "crashed"]
  /\ UNCHANGED <<objectVars, data_lock, data, stored, held, apiVars, loggerVars,
                 line, reads>>

\* Mutant of ReaderExit: the read loop never looks at the stop signal.
ReaderExitNever(t) ==
  /\ pc[t] = "loop"
  /\ stop_event
  /\ UNCHANGED vars

\* while not self.stop_event.is_set(): the loop ends and ser.close() runs.
ReaderExit(t) ==
  /\ pc[t] = "loop"
  /\ stop_event
  /\ chan' = [chan EXCEPT ![t] = "closed"]
  /\ pc' = [pc EXCEPT ![t] = "done"]
  /\ UNCHANGED <<objectVars, data_lock, data, stored, held, apiVars, loggerVars,
                 line, tx, reads, faults>>

\* Mutant of ReaderReadline: a readline that raises ends the whole session.
ReaderReadlineAborts(t) ==
  /\ pc[t] = "loop"
  /\ ~stop_event
  /\ \/ \E raw \in RawLines :
          /\ Strip(raw) # <<>> => reads < budget.reads
          /\ reads' = IF Strip(raw) # <<>> THEN reads + 1 ELSE reads
          /\ line' = [line EXCEPT ![t] = Strip(raw)]
          /\ pc' = [pc EXCEPT ![t] =
                      IF Strip(raw) # <<>> THEN "acquire" ELSE "loop"]
          /\ UNCHANGED <<faults, stop_event>>
     \/ /\ Fault
        /\ stop_event' = TRUE
        /\ pc' = [pc EXCEPT ![t] = "crashed"]
        /\ UNCHANGED <<line, reads>>
  /\ UNCHANGED <<threads, row_callback, data_lock, data, stored, held, apiVars,
                 loggerVars, chan, tx>>

\* Mutant of ReaderReadline: the line is stored without the `if line:` test.
ReaderReadlineStoresBlank(t) ==
  /\ pc[t] = "loop"
  /\ ~stop_event
  /\ \/ \E raw \in RawLines :
          /\ Strip(raw) # <<>> => reads < budget.reads
          /\ reads' = IF Strip(raw) # <<>> THEN reads + 1 ELSE reads
          /\ line' = [line EXCEPT ![t] = Strip(raw)]
          /\ pc' = [pc EXCEPT ![t] = "acquire"]
          /\ UNCHANGED faults
     \/ /\ Fault
        /\ pc' = [pc EXCEPT ![t] = "crashed"]
        /\ UNCHANGED <<line, reads>>
  /\ UNCHANGED <<objectVars, data_lock, data, stored, held, apiVars, loggerVars,
                 chan, tx>>

\* while not self.stop_event.is_set():
\*     line = ser.readline().decode("utf-8", errors="ignore").strip()
\*     if line:
\* readline returns within its timeout, or raises.
ReaderReadline(t) ==
  /\ pc[t] = "loop"
  /\ ~stop_event
  /\ \/ \E raw \in RawLines :
          /\ Strip(raw) # <<>> => reads < budget.reads
          /\ reads' = IF Strip(raw) # <<>> THEN reads + 1 ELSE reads
          /\ line' = [line EXCEPT ![t] = Strip(raw)]
          /\ pc' = [pc EXCEPT ![t] =
                      IF Strip(raw) # <<>> THEN "acquire" ELSE "loop"]
          /\ UNCHANGED faults
     \/ /\ Fault
        /\ pc' = [pc EXCEPT ![t] = "crashed"]
        /\ UNCHANGED <<line, reads>>
  /\ UNCHANGED <<objectVars, data_lock, data, stored, held, apiVars, loggerVars,
                 chan, tx>>

\* with self.data_lock: (entry)
ReaderAcquire(t) ==
  /\ pc[t] = "acquire"
  /\ data_lock = NoThread
  /\ data_lock' = t
  /\ pc' = [pc EXCEPT ![t] = "set"]
  /\ UNCHANGED <<objectVars, data, stored, held, apiVars, loggerVars, readerVars>>

\* self.data[name] = line, and the lock is released.
ReaderSet(t) ==
  /\ pc[t] = "set"
  /\ data' = [data EXCEPT ![t[2]] = line[t]]
  /\ stored' = [stored EXCEPT ![t[2]] = line[t]]
  /\ data_lock' = NoThread
  /\ line' = [line EXCEPT ![t] = <<>>]
  /\ pc' = [pc EXCEPT ![t] = "loop"]
  /\ UNCHANGED <<objectVars, apiVars, loggerVars, chan, tx, reads, faults,
                 held>>

\* ------------------------------------------------------------ logger thread
RECURSIVE SumTicks(_)
SumTicks(k) == IF k = 0 THEN 0 ELSE ticks[<<k, "logger">>] + SumTicks(k - 1)
TotalTicks == SumTicks(MaxStarts)

\* Mutant of LoggerOpen: the file is opened and no header is written.
LoggerOpenBare(t) ==
  /\ pc[t] = "start"
  /\ pc' = [pc EXCEPT ![t] = "loop"]
  /\ UNCHANGED <<objectVars, data_lock, data, stored, held, apiVars, readerVars,
                 loggerVars>>

\* open(filename, "w", ...) and writer.writerow(["Timestamp", *ports]); the
\* file is line buffered, so the header reaches storage with its newline.
LoggerOpen(t) ==
  /\ pc[t] = "start"
  /\ log' = [log EXCEPT ![t] = <<HeaderRow>>]
  /\ flushed' = [flushed EXCEPT ![t] = 1]
  /\ pc' = [pc EXCEPT ![t] = "loop"]
  /\ UNCHANGED <<objectVars, data_lock, data, stored, held, apiVars, readerVars,
                 row, ticks, callbacks>>

\* while not self.stop_event.is_set(): the loop and the with-block end, and
\* the file is closed.
LoggerExit(t) ==
  /\ pc[t] = "loop"
  /\ stop_event
  /\ pc' = [pc EXCEPT ![t] = "done"]
  /\ UNCHANGED <<objectVars, data_lock, data, stored, held, apiVars, readerVars,
                 loggerVars>>

\* while not self.stop_event.is_set(): one more iteration, a tick.
LoggerTick(t) ==
  /\ pc[t] = "loop"
  /\ ~stop_event
  /\ TotalTicks < budget.rows
  /\ ticks' = [ticks EXCEPT ![t] = @ + 1]
  /\ pc' = [pc EXCEPT ![t] = "acquire"]
  /\ UNCHANGED <<objectVars, data_lock, data, stored, held, apiVars, readerVars,
                 row, log, flushed, callbacks>>

\* Mutant of LoggerAcquire: the snapshot is entered without waiting for the
\* lock.
LoggerAcquireNoWait(t) ==
  /\ pc[t] = "acquire"
  /\ data_lock' = t
  /\ pc' = [pc EXCEPT ![t] = "snapshot"]
  /\ UNCHANGED <<objectVars, data, stored, held, apiVars, readerVars, loggerVars>>

\* with self.data_lock: (entry)
LoggerAcquire(t) ==
  /\ pc[t] = "acquire"
  /\ data_lock = NoThread
  /\ data_lock' = t
  /\ pc' = [pc EXCEPT ![t] = "snapshot"]
  /\ UNCHANGED <<objectVars, data, stored, held, apiVars, readerVars, loggerVars>>

\* row = [timestamp] + [self.data[k] for k in self.ports], and the lock is
\* released.
LoggerSnapshot(t) ==
  /\ pc[t] = "snapshot"
  /\ row' = [row EXCEPT ![t] = [s \in Sensors |-> data[s]]]
  /\ data_lock' = NoThread
  /\ pc' = [pc EXCEPT ![t] = "write"]
  /\ UNCHANGED <<objectVars, data, stored, held, apiVars, readerVars, log, flushed,
                 ticks, callbacks>>

\* Mutant of LoggerWrite: a row is written only when some sensor has a
\* reading.
LoggerWriteIfReading(t) ==
  /\ pc[t] = "write"
  /\ log' = [log EXCEPT ![t] =
               IF \E s \in Sensors : row[t][s] # None
                 THEN Append(@, DataRow(row[t]))
                 ELSE @]
  /\ pc' = [pc EXCEPT ![t] = "flush"]
  /\ UNCHANGED <<objectVars, data_lock, data, stored, held, apiVars, readerVars,
                 row, flushed, ticks, callbacks>>

\* writer.writerow(row)
LoggerWrite(t) ==
  /\ pc[t] = "write"
  /\ log' = [log EXCEPT ![t] = Append(@, DataRow(row[t]))]
  /\ pc' = [pc EXCEPT ![t] = "flush"]
  /\ UNCHANGED <<objectVars, data_lock, data, stored, held, apiVars, readerVars,
                 row, flushed, ticks, callbacks>>

\* if self.row_callback and inlet and outlet:   (GUI.py; GUI_simple.py has
\* no callback)
WantsCallback(t) ==
  row_callback /\ Truthy(row[t][PORTS[1]]) /\ Truthy(row[t][PORTS[2]])

\* Mutant of LoggerFlush: the row is left in the buffer.
LoggerFlushLater(t) ==
  /\ pc[t] = "flush"
  /\ IF WantsCallback(t)
       THEN /\ pc' = [pc EXCEPT ![t] = "callback"]
            /\ UNCHANGED row
       ELSE /\ pc' = [pc EXCEPT ![t] = "loop"]
            /\ row' = [row EXCEPT ![t] = InitData]
  /\ UNCHANGED <<objectVars, data_lock, data, stored, held, apiVars, readerVars,
                 log, flushed, ticks, callbacks>>

\* f.flush(), then the callback's condition; without a callback to make,
\* time.sleep(1) and the next iteration.
LoggerFlush(t) ==
  /\ pc[t] = "flush"
  /\ flushed' = [flushed EXCEPT ![t] = Len(log[t])]
  /\ IF WantsCallback(t)
       THEN /\ pc' = [pc EXCEPT ![t] = "callback"]
            /\ UNCHANGED row
       ELSE /\ pc' = [pc EXCEPT ![t] = "loop"]
            /\ row' = [row EXCEPT ![t] = InitData]
  /\ UNCHANGED <<objectVars, data_lock, data, stored, held, apiVars, readerVars,
                 log, ticks, callbacks>>

\* self.row_callback(timestamp, float(inlet), float(outlet)); time.sleep(1)
\* float() raises ValueError on a line that is no number: the thread dies.
LoggerCallback(t) ==
  /\ pc[t] = "callback"
  /\ IF IsFloat(row[t][PORTS[1]]) /\ IsFloat(row[t][PORTS[2]])
       THEN /\ callbacks' = [callbacks EXCEPT ![t] = @ + 1]
            /\ pc' = [pc EXCEPT ![t] = "loop"]
       ELSE /\ pc' = [pc EXCEPT ![t] = "crashed"]
            /\ UNCHANGED callbacks
  /\ row' = [row EXCEPT ![t] = InitData]
  /\ UNCHANGED <<objectVars, data_lock, data, stored, held, apiVars, readerVars,
                 log, flushed, ticks>>

\* ------------------------------------------------------------ start / stop
Returned(k) == startPc[k] \in {"none", "returned"}
NoStartInFlight == \A k \in 1..MaxStarts : Returned(k)

\* start(): self.stop_event.clear()
StartCall ==
  /\ session < budget.starts
  /\ session' = session + 1
  /\ stop_event' = FALSE
  /\ startPc' = [startPc EXCEPT ![session + 1] = "logger"]
  /\ UNCHANGED <<data_lock, data, stored, held, threads, row_callback, pc,
                 readerVars, loggerVars, nextPort, stopPc, stoppedUpTo, budget>>

\* tlog.start(); self.threads = [tlog]
StartLogger(k) ==
  /\ startPc[k] = "logger"
  /\ pc' = [pc EXCEPT ![<<k, "logger">>] = "start"]
  /\ threads' = << <<k, "logger">> >>
  /\ startPc' = [startPc EXCEPT ![k] = "readers"]
  /\ UNCHANGED <<stop_event, data_lock, data, stored, held, row_callback,
                 readerVars, loggerVars, session, nextPort, stopPc,
                 stoppedUpTo, budget>>

\* for name, port in self.ports.items(): tread.start();
\* self.threads.append(tread)
StartReader(k) ==
  /\ startPc[k] = "readers"
  /\ LET t == <<k, PORTS[nextPort[k]]>> IN
       /\ pc' = [pc EXCEPT ![t] = "start"]
       /\ threads' = Append(threads, t)
  /\ IF nextPort[k] = Len(PORTS)
       THEN /\ startPc' = [startPc EXCEPT ![k] = "returned"]
            /\ UNCHANGED nextPort
       ELSE /\ nextPort' = [nextPort EXCEPT ![k] = @ + 1]
            /\ UNCHANGED startPc
  /\ UNCHANGED <<stop_event, data_lock, data, stored, held, row_callback,
                 readerVars, loggerVars, session, stopPc, stoppedUpTo, budget>>

\* Mutant of StopCall: the stop signal is flipped, not set.
StopCallFlips ==
  /\ stopPc = "idle"
  /\ stop_event' = ~stop_event
  /\ stopPc' = "joining"
  /\ stoppedUpTo' = session
  /\ UNCHANGED <<data_lock, data, stored, held, threads, row_callback, pc,
                 readerVars, loggerVars, session, startPc, nextPort, budget>>

\* stop(): self.stop_event.set()
StopCall ==
  /\ stopPc = "idle"
  /\ stop_event' = TRUE
  /\ stopPc' = "joining"
  /\ stoppedUpTo' = session
  /\ UNCHANGED <<data_lock, data, stored, held, threads, row_callback, pc,
                 readerVars, loggerVars, session, startPc, nextPort, budget>>

\* for t in self.threads: t.join(timeout=2); self.threads.clear()
\* Each join ends when its thread has ended or after 2 seconds, so stop()
\* returns whether or not the threads have ended.
StopReturn ==
  /\ stopPc = "joining"
  /\ threads' = <<>>
  /\ stopPc' = "idle"
  /\ UNCHANGED <<stop_event, data_lock, data, stored, held, row_callback, pc,
                 readerVars, loggerVars, session, startPc, nextPort,
                 stoppedUpTo, budget>>

\* ------------------------------------------------------------ specification
ReaderStep(t) ==
  \/ ReaderStartup(t)
  \/ ReaderExit(t)
  \/ ReaderReadline(t)
  \/ ReaderAcquire(t)
  \/ ReaderSet(t)

LoggerStep(t) ==
  \/ LoggerOpen(t)
  \/ LoggerExit(t)
  \/ LoggerTick(t)
  \/ LoggerAcquire(t)
  \/ LoggerSnapshot(t)
  \/ LoggerWrite(t)
  \/ LoggerFlush(t)

\* start() and stop() called from one thread, each call returning before the
\* next is made.
ApiStep ==
  \/ NoStartInFlight /\ stopPc = "idle" /\ StartCall
  \/ \E k \in 1..MaxStarts : StartLogger(k)
  \/ \E k \in 1..MaxStarts : StartReader(k)
  \/ NoStartInFlight /\ StopCall
  \/ StopReturn

\* serial_communicaiton_GUI_simple.py
Next ==
  \/ \E t \in Readers : ReaderStep(t)
  \/ \E t \in Loggers : LoggerStep(t)
  \/ ApiStep

Spec == Init /\ [][Next]_vars

\* serial_communicaiton_GUI.py: the same threads, and the logger's callback.
NextPlot ==
  \/ Next
  \/ \E t \in Loggers : LoggerCallback(t)

SpecPlot == InitPlot /\ [][NextPlot]_vars

\* Every thread that can run does run (the scheduler), and a readline returns
\* by its timeout.
Fairness ==
  /\ \A t \in Readers : WF_vars(ReaderStep(t))
  /\ \A t \in Loggers : WF_vars(LoggerStep(t))

FairSpec == Spec /\ Fairness

\* ------------------------------------------------------ dual-sensor script
\* serial_communicaiton_2sensors2file.py: the main thread launches a reader
\* thread per sensor and then runs logger() itself.  There is no lock, no stop
\* signal and no start()/stop(); the table is the global sensor_data (`data`).
\* The main thread is <<1, "logger">>, the readers are <<1, sensor>>.
SCRIPT_PORTS == <<"CO2_outlet_ppm", "CO2_inlet_ppm">>   \* PORTS.items()
ScriptMain == <<1, "logger">>
ScriptReaders == {1} \X Sensors

\* The main thread is in its `for name, port in PORTS.items()` loop.
InitScript ==
  /\ stop_event = FALSE
  /\ data_lock = NoThread
  /\ data = InitData
  /\ threads = <<>>
  /\ row_callback = FALSE
  /\ pc = [t \in Threads |-> "none"]
  /\ line = [t \in Readers |-> <<>>]
  /\ row = [t \in Loggers |-> InitData]
  /\ log = [t \in Loggers |-> <<>>]
  /\ flushed = [t \in Loggers |-> 0]
  /\ chan = [t \in Readers |-> "none"]
  /\ tx = [t \in Readers |-> <<>>]
  /\ session = 0
  /\ startPc = [k \in 1..MaxStarts |-> IF k = 1 THEN "readers" ELSE "none"]
  /\ nextPort = [k \in 1..MaxStarts |-> 1]
  /\ stopPc = "idle"
  /\ stoppedUpTo = 0
  /\ ticks = [t \in Loggers |-> 0]
  /\ stored = InitData
  /\ callbacks = [t \in Loggers |-> 0]
  /\ reads = 0
  /\ faults = 0
  /\ held = {InitData}
  /\ budget \in Budgets

\* What no step of the script touches.
scriptIdle == <<stop_event, data_lock, row_callback, session, stopPc,
                stoppedUpTo, callbacks, budget>>

\* The process is running: its daemon threads end when the main thread does.
ScriptRunning == pc[ScriptMain] # "done"

\* t = threading.Thread(target=sensor_reader, ...); t.start();
\* threads.append(t)
MainStartReader ==
  /\ startPc[1] = "readers"
  /\ LET t == <<1, SCRIPT_PORTS[nextPort[1]]>> IN
       /\ pc' = [pc EXCEPT ![t] = "start"]
       /\ threads' = Append(threads, t)
  /\ IF nextPort[1] = Len(SCRIPT_PORTS)
       THEN /\ startPc' = [startPc EXCEPT ![1] = "logger"]
            /\ UNCHANGED nextPort
       ELSE /\ nextPort' = [nextPort EXCEPT ![1] = @ + 1]
            /\ UNCHANGED startPc
  /\ UNCHANGED <<scriptIdle, data, stored, held, readerVars, row, log,
                 flushed, ticks>>

\* logger(): open(logfile, mode='w', newline='', buffering=1) and the header
\* row, which the line-buffered file passes on with its newline.
ScriptLoggerOpen ==
  /\ startPc[1] = "logger"
  /\ pc[ScriptMain] = "none"
  /\ log' = [log EXCEPT ![ScriptMain] = <<HeaderRow>>]
  /\ flushed' = [flushed EXCEPT ![ScriptMain] = 1]
  /\ pc' = [pc EXCEPT ![ScriptMain] = "loop"]
  /\ UNCHANGED <<scriptIdle, data, stored, held, readerVars, threads, startPc,
                 nextPort, row, ticks>>

\* while True: timestamp = ...; one more iteration, a tick.
ScriptLoggerTick ==
  /\ pc[ScriptMain] = "loop"
  /\ TotalTicks < budget.rows
  /\ ticks' = [ticks EXCEPT ![ScriptMain] = @ + 1]
  /\ pc' = [pc EXCEPT ![ScriptMain] = "inlet"]
  /\ UNCHANGED <<scriptIdle, data, stored, held, readerVars, threads, startPc,
                 nextPort, row, log, flushed>>

\* row = [timestamp, sensor_data["CO2_inlet_ppm"], ...: the first subscript.
ScriptLoggerReadInlet ==
  /\ pc[ScriptMain] = "inlet"
  /\ row' = [row EXCEPT ![ScriptMain]["CO2_inlet_ppm"] = data["CO2_inlet_ppm"]]
  /\ pc' = [pc EXCEPT ![ScriptMain] = "outlet"]
  /\ UNCHANGED <<scriptIdle, data, stored, held, readerVars, threads, startPc,
                 nextPort, log, flushed, ticks>>

\* ..., sensor_data["CO2_outlet_ppm"]]: the second subscript, a bytecode of
\* its own; another thread may run between the two.
ScriptLoggerReadOutlet ==
  /\ pc[ScriptMain] = "outlet"
  /\ row' = [row EXCEPT ![ScriptMain]["CO2_outlet_ppm"] = data["CO2_outlet_ppm"]]
  /\ pc' = [pc EXCEPT ![ScriptMain] = "write"]
  /\ UNCHANGED <<scriptIdle, data, stored, held, readerVars, threads, startPc,
                 nextPort, log, flushed, ticks>>

\* writer.writerow(row), passed on by the line-buffered file; print;
\* time.sleep(1)
ScriptLoggerWrite ==
  /\ pc[ScriptMain] = "write"
  /\ log' = [log EXCEPT ![ScriptMain] = Append(@, DataRow(row[ScriptMain]))]
  /\ flushed' = [flushed EXCEPT ![ScriptMain] = Len(log[ScriptMain]) + 1]
  /\ row' = [row EXCEPT ![ScriptMain] = InitData]
  /\ pc' = [pc EXCEPT ![ScriptMain] = "loop"]
  /\ UNCHANGED <<scriptIdle, data, stored, held, readerVars, threads, startPc,
                 nextPort, ticks>>

\* except KeyboardInterrupt: print("Logging stopped."); return
\* logger() returns, the main thread ends and with it the process.
ScriptInterrupt ==
  /\ pc[ScriptMain] \in {"loop", "inlet", "outlet", "write"}
  /\ pc' = [pc EXCEPT ![ScriptMain] = "done"]
  /\ UNCHANGED <<scriptIdle, data, stored, held, readerVars, threads, startPc,
                 nextPort, row, log, flushed, ticks>>

\* send_command(ser, "r"): ser.write(("r" + "\r\n").encode())
SendCommand == <<"r\r\n">>

\* The writes of sensor_reader before its loop, in order: activate_sensor(ser),
\* send_command(ser, "r"), send_command(ser, "r").
ScriptStartupWrites == ActivateSensor \o SendCommand \o SendCommand

\* The writes made before the one that raises, when one does.
ScriptWriteFailAt == {0, 15, 30, 31}

\* sensor_reader up to its loop.  Nothing catches a SerialException of
\* serial.Serial(...) or of a write: the thread ends with it, the port, when
\* it was opened, left open.
ScriptReaderStartup(t) ==
  /\ ScriptRunning
  /\ pc[t] = "start"
  /\ \/ /\ chan' = [chan EXCEPT ![t] = "open"]
        /\ tx' = [tx EXCEPT ![t] = ScriptStartupWrites]
        /\ pc' = [pc EXCEPT ![t] = "loop"]
        /\ UNCHANGED faults
     \/ /\ Fault
        /\ pc' = [pc EXCEPT ![t] = "crashed"]
        /\ UNCHANGED <<chan, tx>>
     \/ \E n \in ScriptWriteFailAt :
          /\ Fault
          /\ chan' = [chan EXCEPT ![t] = "open"]
          /\ tx' = [tx EXCEPT ![t] = SubSeq(ScriptStartupWrites, 1, n)]
          /\ pc' = [pc EXCEPT ![t] = "crashed"]
  /\ UNCHANGED <<scriptIdle, data, stored, held, threads, startPc, nextPort,
                 loggerVars, line, reads>>

\* while True: try: line = ser.readline().decode(...).strip(); if line:
\* except serial.SerialException: break   (the port is not closed)
ScriptReaderReadline(t) ==
  /\ ScriptRunning
  /\ pc[t] = "loop"
  /\ \/ \E raw \in RawLines :
          /\ Strip(raw) # <<>> => reads < budget.reads
          /\ reads' = IF Strip(raw) # <<>> THEN reads + 1 ELSE reads
          /\ line' = [line EXCEPT ![t] = Strip(raw)]
          /\ pc' = [pc EXCEPT ![t] =
                      IF Strip(raw) # <<>> THEN "set" ELSE "loop"]
          /\ UNCHANGED faults
     \/ /\ Fault
        /\ pc' = [pc EXCEPT ![t] = "done"]
        /\ UNCHANGED <<line, reads>>
  /\ UNCHANGED <<scriptIdle, data, stored, held, threads, startPc, nextPort,
                 loggerVars, chan, tx>>

\* sensor_data[sensor_name] = line, under no lock.
ScriptReaderSet(t) ==
  /\ ScriptRunning
  /\ pc[t] = "set"
  /\ data' = [data EXCEPT ![t[2]] = line[t]]
  /\ stored' = [stored EXCEPT ![t[2]] = line[t]]
  /\ held' = held \cup {[data EXCEPT ![t[2]] = line[t]]}
  /\ line' = [line EXCEPT ![t] = <<>>]
  /\ pc' = [pc EXCEPT ![t] = "loop"]
  /\ UNCHANGED <<scriptIdle, threads, startPc, nextPort, loggerVars, chan, tx,
                 reads, faults>>

ScriptReaderStep(t) ==
  \/ ScriptReaderStartup(t)
  \/ ScriptReaderReadline(t)
  \/ ScriptReaderSet(t)

ScriptMainStep ==
  \/ MainStartReader
  \/ ScriptLoggerOpen
  \/ ScriptLoggerTick
  \/ ScriptLoggerReadInlet
  \/ ScriptLoggerReadOutlet
  \/ ScriptLoggerWrite
  \/ ScriptInterrupt

NextScript ==
  \/ \E t \in ScriptReaders : ScriptReaderStep(t)
  \/ ScriptMainStep

SpecScript == InitScript /\ [][NextScript]_vars

\* ---------------------------------------------------- single-sensor script
\* serial_communicaiton_write2file.py: one thread and one sensor.  The
\* program's position and its log are those of <<1, "logger">>, its port and
\* its `line` those of <<1, "CO2_inlet_ppm">>.
Single == <<1, "logger">>
SinglePort == <<1, "CO2_inlet_ppm">>

SingleHeaderRow == [kind |-> "header", fields |-> <<"CO2_Value_ppm">>]
SingleDataRow(text) == [kind |-> "data", fields |-> <<text>>]

\* What no step of the program touches.
singleIdle == <<stop_event, data_lock, data, threads, row_callback, row,
                session, startPc, nextPort, stopPc, stoppedUpTo, ticks, stored,
                callbacks, held, budget>>

\* A transport call raises; nothing catches serial.SerialException, so the
\* program ends with it, and the with-block, when entered, closes the file.
SingleFault ==
  /\ Fault
  /\ pc' = [pc EXCEPT ![Single] = "crashed"]
  /\ flushed' = [flushed EXCEPT ![Single] = Len(log[Single])]

\* ser = serial.Serial(PORT, BAUDRATE, timeout=TIMEOUT); time.sleep(2)
SingleOpen ==
  /\ pc[Single] = "none"
  /\ \/ /\ chan' = [chan EXCEPT ![SinglePort] = "open"]
        /\ pc' = [pc EXCEPT ![Single] = "activate"]
        /\ UNCHANGED <<faults, flushed>>
     \/ /\ SingleFault
        /\ UNCHANGED chan
  /\ UNCHANGED <<singleIdle, line, tx, reads, log>>

\* activate_sensor: for _ in range(30): ser.write(b'Z'); time.sleep(0.1)
SingleWake ==
  /\ pc[Single] = "activate"
  /\ \/ /\ tx' = [tx EXCEPT ![SinglePort] = Append(@, "Z")]
        /\ pc' = [pc EXCEPT ![Single] =
                    IF Len(tx[SinglePort]) + 1 = WAKE_BYTES
                      THEN "newline" ELSE "activate"]
        /\ UNCHANGED <<faults, flushed>>
     \/ /\ SingleFault
        /\ UNCHANGED tx
  /\ UNCHANGED <<singleIdle, line, chan, reads, log>>

\* activate_sensor, after the loop: ser.write(b'\n')
SingleNewline ==
  /\ pc[Single] = "newline"
  /\ \/ /\ tx' = [tx EXCEPT ![SinglePort] = Append(@, "\n")]
        /\ pc' = [pc EXCEPT ![Single] = "command1"]
        /\ UNCHANGED <<faults, flushed>>
     \/ /\ SingleFault
        /\ UNCHANGED tx
  /\ UNCHANGED <<singleIdle, line, chan, reads, log>>

\* time.sleep(2); send_command(">r"), made twice
SingleSendCommand ==
  /\ pc[Single] \in {"command1", "command2"}
  /\ \/ /\ tx' = [tx EXCEPT ![SinglePort] = Append(@, ">r\r\n")]
        /\ pc' = [pc EXCEPT ![Single] =
                    IF pc[Single] = "command1" THEN "command2" ELSE "header"]
        /\ UNCHANGED <<faults, flushed>>
     \/ /\ SingleFault
        /\ UNCHANGED tx
  /\ UNCHANGED <<singleIdle, line, chan, reads, log>>

\* read_sensor_and_log: open(logfile, mode='w', newline='') and the header
\* row, which stays in the file object's buffer.
SingleLogOpen ==
  /\ pc[Single] = "header"
  /\ log' = [log EXCEPT ![Single] = <<SingleHeaderRow>>]
  /\ pc' = [pc EXCEPT ![Single] = "loop"]
  /\ UNCHANGED <<singleIdle, readerVars, flushed>>

\* line = ser.readline().decode('utf-8', errors='ignore').strip(); if line:
SingleReadline ==
  /\ pc[Single] = "loop"
  /\ \/ \E raw \in RawLines :
          /\ Strip(raw) # <<>> => reads < budget.reads
          /\ reads' = IF Strip(raw) # <<>> THEN reads + 1 ELSE reads
          /\ line' = [line EXCEPT ![SinglePort] = Strip(raw)]
          /\ pc' = [pc EXCEPT ![Single] =
                      IF Strip(raw) # <<>> THEN "write" ELSE "loop"]
          /\ UNCHANGED <<faults, flushed>>
     \/ /\ SingleFault
        /\ UNCHANGED <<line, reads>>
  /\ UNCHANGED <<singleIdle, chan, tx, log>>

\* writer.writerow([timestamp, line])
SingleWrite ==
  /\ pc[Single] = "write"
  /\ log' = [log EXCEPT ![Single] = Append(@, SingleDataRow(line[SinglePort]))]
  /\ pc' = [pc EXCEPT ![Single] = "flush"]
  /\ UNCHANGED <<singleIdle, readerVars, flushed>>

\* file.flush(); print
SingleFlush ==
  /\ pc[Single] = "flush"
  /\ flushed' = [flushed EXCEPT ![Single] = Len(log[Single])]
  /\ line' = [line EXCEPT ![SinglePort] = <<>>]
  /\ pc' = [pc EXCEPT ![Single] = "loop"]
  /\ UNCHANGED <<singleIdle, chan, tx, reads, faults, log>>

\* except KeyboardInterrupt: print(...); ser.close(), and the with-block
\* closes the file.
SingleInterrupt ==
  /\ pc[Single] \in {"loop", "write", "flush"}
  /\ chan' = [chan EXCEPT ![SinglePort] = "closed"]
  /\ flushed' = [flushed EXCEPT ![Single] = Len(log[Single])]
  /\ pc' = [pc EXCEPT ![Single] = "done"]
  /\ UNCHANGED <<singleIdle, line, tx, reads, faults, log>>

NextSingle ==
  \/ SingleOpen
  \/ SingleWake
  \/ SingleNewline
  \/ SingleSendCommand
  \/ SingleLogOpen
  \/ SingleReadline
  \/ SingleWrite
  \/ SingleFlush
  \/ SingleInterrupt

SpecSingle == Init /\ [][NextSingle]_vars

\* ------------------------------------------------------------- CO2App UI
\* CO2App._toggle, the button's command, run by the UI thread: a Start toggle
\* hands logger.start to a thread of its own and returns; a Stop toggle runs
\* logger.stop() itself, so the UI thread takes no other toggle until stop()
\* has returned.

\* self.running: set by a Start toggle, reset when a Stop toggle's stop() has
\* returned.
Running == session > stoppedUpTo \/ stopPc = "joining"

\* if not self.running: ...; self.running = True;
\* threading.Thread(target=self.logger.start, args=(fname,), daemon=True).start()
\* The new thread has not yet run a statement of start().
ToggleStart ==
  /\ ~Running
  /\ session < budget.starts
  /\ session' = session + 1
  /\ startPc' = [startPc EXCEPT ![session + 1] = "clear"]
  /\ UNCHANGED <<stop_event, data_lock, data, stored, held, threads,
                 row_callback, pc, readerVars, loggerVars, nextPort, stopPc,
                 stoppedUpTo, budget>>

\* start(), in its thread: self.stop_event.clear()
StartClear(k) ==
  /\ startPc[k] = "clear"
  /\ stop_event' = FALSE
  /\ startPc' = [startPc EXCEPT ![k] = "logger"]
  /\ UNCHANGED <<data_lock, data, stored, held, threads, row_callback, pc,
                 readerVars, loggerVars, session, nextPort, stopPc,
                 stoppedUpTo, budget>>

\* else: self.logger.stop()   (up to the joins)
ToggleStop ==
  /\ Running
  /\ StopCall

\* The UI thread, and the threads running start().
ToggleStep ==
  \/ ToggleStart
  \/ \E k \in 1..MaxStarts : StartClear(k)
  \/ \E k \in 1..MaxStarts : StartLogger(k)
  \/ \E k \in 1..MaxStarts : StartReader(k)
  \/ ToggleStop
  \/ StopReturn

NextToggle ==
  \/ \E t \in Readers : ReaderStep(t)
  \/ \E t \in Loggers : LoggerStep(t)
  \/ ToggleStep

\* A run of the UI is one session examined in depth, or several toggles with
\* sensors that stay silent.
ToggleBudgets ==
  { [starts |-> 1, rows |-> MaxRows, reads |-> MaxReads, faults |-> MaxFaults],
    [starts |-> MaxStarts, rows |-> 0, reads |-> 0, faults |-> 0] }

\* CO2App.__init__: self.logger = DualCO2Logger(PORTS); self.running = False
InitToggle ==
  /\ stop_event = FALSE
  /\ data_lock = NoThread
  /\ data = InitData
  /\ threads = <<>>
  /\ row_callback = FALSE
  /\ pc = [t \in Threads |-> "none"]
  /\ line = [t \in Readers |-> <<>>]
  /\ row = [t \in Loggers |-> InitData]
  /\ log = [t \in Loggers |-> <<>>]
  /\ flushed = [t \in Loggers |-> 0]
  /\ chan = [t \in Readers |-> "none"]
  /\ tx = [t \in Readers |-> <<>>]
  /\ session = 0
  /\ startPc = [k \in 1..MaxStarts |-> "none"]
  /\ nextPort = [k \in 1..MaxStarts |-> 1]
  /\ stopPc = "idle"
  /\ stoppedUpTo = 0
  /\ ticks = [t \in Loggers |-> 0]
  /\ stored = InitData
  /\ callbacks = [t \in Loggers |-> 0]
  /\ reads = 0
  /\ faults = 0
  /\ held = {InitData}
  /\ budget \in ToggleBudgets

SpecToggle == InitToggle /\ [][NextToggle]_vars

\* ------------------------------------------------------------------ claims
DataRows(t) == IF log[t] = <<>> THEN 0 ELSE Len(log[t]) - 1
Snapshots(t) == pc[t] = "snapshot" /\ pc'[t] = "write"
Writes(t)    == pc[t] = "write" /\ pc'[t] = "flush"
Missing == <<>>

\* C1: a row's field for a sensor is the line most recently stored for it
\* when the row's snapshot was taken, and is empty (None) for a sensor that
\* has never received a reading; nothing else ever appears in a row.
C1_Snapshot ==
  \A t \in Loggers : Snapshots(t) => row'[t] = stored
C1_Written ==
  \A t \in Loggers : Writes(t) =>
    /\ Len(log'[t]) = Len(log[t]) + 1
    /\ SubSeq(log'[t], 1, Len(log[t])) = log[t]
    /\ log'[t][Len(log'[t])].kind = "data"
    /\ \A i \in 1..Len(PORTS) :
         log'[t][Len(log'[t])].fields[i] =
           IF row[t][PORTS[i]] = None THEN Missing ELSE row[t][PORTS[i]]
C1_NoGarbage ==
  \A t \in Loggers : \A n \in 2..Len(log[t]) : \A i \in 1..Len(PORTS) :
    /\ log[t][n].fields[i] \in Lines \cup {Missing}
    /\ stored[PORTS[i]] = None => log[t][n].fields[i] = Missing
C1_RowsHoldLatestOrMissing ==
  [](C1_NoGarbage) /\ [][C1_Snapshot /\ C1_Written]_vars

\* Scenario 1: a row with the inlet's line and the outlet still missing.
C1_Witness ==
  \E t \in Loggers :
    /\ Len(log[t]) >= 2
    /\ log[t][2].fields[1] \in Lines
    /\ log[t][2].fields[2] = Missing
    /\ stored[PORTS[2]] = None

\* C2: the logger's snapshot section and the readers' set sections exclude
\* one another: at most one thread is inside any of them.
InSection(t) == pc[t] \in {"set", "snapshot"}
C2_MutualExclusion ==
  /\ Cardinality({t \in Threads : InSection(t)}) <= 1
  /\ \A t \in Threads : InSection(t) => data_lock = t

\* A logger inside its snapshot while a reader with a line waits for the lock.
C2_Witness ==
  \E t \in Loggers : \E r \in Readers :
    pc[t] = "snapshot" /\ pc[r] = "acquire"

\* C3: every tick of a logger appends one row, whatever the readers do:
\* between iterations the rows equal the ticks, inside one they differ by
\* at most the row under way.
C3_OneRowPerTick ==
  \A t \in Loggers :
    /\ DataRows(t) <= ticks[t]
    /\ ticks[t] <= DataRows(t) + 1
    /\ pc[t] \in {"loop", "done"} => DataRows(t) = ticks[t]

\* Two ticks, two rows, and no reader has received a line.
C3_Witness ==
  \E t \in Loggers :
    /\ ticks[t] = MaxRows
    /\ DataRows(t) = MaxRows
    /\ reads = 0
    /\ ~stop_event

\* C4 (as claimed): a start() on a running session launches nothing, so of
\* the tasks launched since the last stop() there is at most one logger and
\* one reader per sensor.
NotYetStopped(t) == pc[t] # "none" /\ t[1] > stoppedUpTo
C4_OneSessionAtATime ==
  \A r \in Roles :
    Cardinality({k \in 1..MaxStarts : NotYetStopped(<<k, r>>)}) <= 1

CallsStop   == stopPc = "idle" /\ stopPc' = "joining"
ReturnsStop == stopPc = "joining" /\ stopPc' = "idle"
unchangedByStop == <<threads, data, log, pc, data_lock, flushed>>

\* C5 (as claimed): stop() on a session already stopped or never started
\* changes nothing: the stop signal stays as it was, set.
C5_StopChangesNothing ==
  [][(CallsStop /\ threads = <<>>) =>
       (stop_event /\ stop_event' /\ UNCHANGED unchangedByStop)]_vars

\* C5 (amended): stop() on a stopped session changes nothing and the stop
\* signal stays set; the one stop() with no task to stop that changes
\* something is the first on a logger never started, which sets the stop
\* signal (clear until then) and changes nothing else.
C5_StopIdempotent ==
  /\ [][(CallsStop /\ threads = <<>> /\ stop_event) =>
          (stop_event' /\ UNCHANGED unchangedByStop)]_vars
  /\ [][(CallsStop /\ threads = <<>> /\ ~stop_event) =>
          (session = 0 /\ stop_event' /\ UNCHANGED unchangedByStop)]_vars
  /\ [][(ReturnsStop /\ threads = <<>>) =>
          UNCHANGED <<stop_event, unchangedByStop>>]_vars

\* A second stop() under way on a stopped session that has stored a reading.
C5_Witness ==
  /\ stopPc = "joining"
  /\ threads = <<>>
  /\ session > 0
  /\ stop_event
  /\ \E s \in Sensors : data[s] # None
  /\ \E t \in Loggers : DataRows(t) > 0

\* C6: a transport failure ends the reader it happens in and nothing else:
\* the step changes no other thread, nor the stop signal, the table or a log;
\* the failed reader does not hold the lock; every other thread that has
\* ended ended because stop was requested, and the logger never fails.
OpenFailed(t) == pc[t] = "done" /\ chan[t] = "none"
FailedReaders == {t \in Readers : pc[t] = "crashed" \/ OpenFailed(t)}
FaultIn(r) == faults' = faults + 1 /\ pc'[r] # pc[r]
C6_FaultStep ==
  \A r \in Readers : FaultIn(r) =>
    /\ \A t \in Threads \ {r} : pc'[t] = pc[t]
    /\ UNCHANGED <<stop_event, threads, data, data_lock, log, flushed, ticks>>
C6_OthersRun ==
  /\ Cardinality(FailedReaders) = faults
  /\ \A r \in FailedReaders : data_lock # r
  /\ \A t \in Threads \ FailedReaders :
       Terminated(t) => (pc[t] = "done" /\ stoppedUpTo >= t[1])
C6_FailureIsLocal == [](C6_OthersRun) /\ [][C6_FaultStep]_vars

\* One reader has failed, no stop is requested, and meanwhile the other
\* reader is storing a line and the logger has written rows and is at work on
\* the next.
C6_Witness ==
  \E r \in Readers : \E o \in Readers : \E t \in Loggers :
    /\ pc[r] = "crashed"
    /\ pc[o] = "set"
    /\ DataRows(t) >= 1
    /\ pc[t] = "acquire"
    /\ stoppedUpTo = 0
    /\ ~stop_event

\* C7: once the stop signal is set, and unless a later start() clears it,
\* every task exits.
AllExited == \A t \in Threads : ~Live(t)
C7_TasksExitAfterStop == stop_event ~> (~stop_event \/ AllExited)

\* stop() has returned and every task of the session has exited, the readers
\* through ser.close().
C7_Witness ==
  /\ stop_event
  /\ stopPc = "idle"
  /\ session > 0
  /\ AllExited
  /\ \A s \in Sensors : chan[<<1, s>>] = "closed"
  /\ pc[<<1, "logger">>] = "done"

\* C8 (as claimed): a start() that follows a stop() leaves every slot of the
\* table absent.
C8_StartGivesFreshTable ==
  [][(session' = session + 1 /\ stop_event /\ threads = <<>>) =>
       \A s \in Sensors : data'[s] = None]_vars

\* C9 (as claimed): a reader that has ended after opening its port has
\* closed it.
C9_PortClosedOnExit ==
  \A t \in Readers : (Terminated(t) /\ chan[t] # "none") => chan[t] = "closed"

\* C10 (as claimed): whatever lines the readers store, the logger of the
\* plotting variant never fails: it ends only by the stop signal.
C10_LoggerNeverFails == \A t \in Loggers : pc[t] # "crashed"

\* C11 (as claimed): with a row callback registered, every row written is
\* followed by one invocation of the callback, made after the row is flushed:
\* between iterations the invocations equal the rows, and they never exceed
\* the flushed rows.
C11_CallbackOncePerRow ==
  \A t \in Loggers :
    /\ callbacks[t] > 0 => callbacks[t] < flushed[t]
    /\ (row_callback /\ pc[t] \in {"loop", "done"}) => callbacks[t] = DataRows(t)

\* C13 (as claimed): a reader of a session that stop() was called on is not
\* alive beside the reader a later start() launched for the same sensor.
\* (Two start() calls with no stop() between them are the matter of C4.)
C13_NoAbandonedReaderRuns ==
  \A s \in Sensors : \A j \in 1..MaxStarts : \A k \in 1..MaxStarts :
    (j <= stoppedUpTo /\ stoppedUpTo < k /\ Live(<<k, s>>)) => ~Live(<<j, s>>)

\* C15 (as claimed): once the reader of the current session has ended, no
\* step changes its sensor's slot, and every snapshot the session's logger
\* takes from then on holds the slot's value.
C15_Frozen(r) ==
  /\ data'[r[2]] = data[r[2]]
  /\ Snapshots(<<r[1], "logger">>) => row'[<<r[1], "logger">>][r[2]] = data[r[2]]
C15_SlotFrozenAfterReaderEnds ==
  [][\A r \in Readers : (Terminated(r) /\ session = r[1]) => C15_Frozen(r)]_vars

\* C16: a step changes the table only if it is a reader's store, which sets
\* that reader's own slot to its line, non-empty and trimmed, and no other
\* slot; a readline, whatever it returns, and every step of a logger leave
\* the table as it is.
ReaderStores(r) == pc[r] = "set" /\ pc'[r] = "loop"
C16_Store(r) ==
  /\ line[r] # <<>>
  /\ Strip(line[r]) = line[r]
  /\ data'[r[2]] = line[r]
  /\ \A s \in Sensors \ {r[2]} : data'[s] = data[s]
C16_Step ==
  /\ \A r \in Readers : ReaderStores(r) => C16_Store(r)
  /\ \A r \in Readers : (pc[r] = "loop" /\ <<pc'[r], line'[r]>> # <<pc[r], line[r]>>)
                          => data' = data
  /\ \A t \in Loggers : (pc'[t] # pc[t]) => data' = data
  /\ data' # data => \E r \in Readers : ReaderStores(r)
C16_ReaderStepFrame == [][C16_Step]_vars

\* A reader has stored a line and is back in its loop, the other sensor's slot
\* is still absent, and the logger has written a row.
C16_Witness ==
  \E r \in Readers :
    /\ data[r[2]] \in Lines
    /\ \A s \in Sensors \ {r[2]} : data[s] = None
    /\ pc[r] = "loop"
    /\ reads = 1
    /\ \E t \in Loggers : DataRows(t) >= 1

\* C18 (as claimed): a reader in its read loop has sent the start-streaming
\* command twice, and no reader ever sends it more than twice.
CommandsSent(r) == Cardinality({i \in 1..Len(tx[r]) : tx[r][i] = "r\r\n"})
InReadLoop(r) == pc[r] \in {"loop", "acquire", "set"}
C18_CommandSentTwice ==
  \A r \in Readers :
    /\ CommandsSent(r) <= 2
    /\ InReadLoop(r) => CommandsSent(r) = 2

\* C19: a logger's file holds nothing before the logger opens it; from then
\* on it begins with the header, the sensor names in declaration order, and
\* every row after the first is a data row.
C19_HeaderOnceAndFirst ==
  \A t \in Loggers :
    /\ pc[t] \in {"none", "start"} => log[t] = <<>>
    /\ pc[t] \notin {"none", "start"} =>
         /\ Len(log[t]) >= 1
         /\ log[t][1].kind = "header"
         /\ log[t][1].fields = PORTS
    /\ \A n \in 2..Len(log[t]) : log[t][n].kind = "data"

\* The second session's file: its own header, then a data row.
C19_Witness ==
  /\ Len(log[<<MaxStarts, "logger">>]) >= 2
  /\ log[<<MaxStarts, "logger">>][1] = HeaderRow
  /\ Len(log[<<1, "logger">>]) >= 1

\* C20: at most the row under way is unflushed, and none is while the logger
\* waits for its tick, takes its snapshot, makes its callback or has ended.
C20_RowFlushedBeforeNextIteration ==
  \A t \in Loggers :
    /\ flushed[t] <= Len(log[t])
    /\ Len(log[t]) <= flushed[t] + 1
    /\ pc[t] # "flush" => flushed[t] = Len(log[t])

\* A second iteration under way with the first row flushed.
C20_Witness ==
  \E t \in Loggers :
    /\ pc[t] = "snapshot"
    /\ DataRows(t) >= 1
    /\ flushed[t] = Len(log[t])

\* C12 (as claimed): a reader of a session exists only once the session's
\* logger has been launched.
C12_LoggerStartedFirst ==
  \A k \in 1..MaxStarts : \A s \in Sensors :
    pc[<<k, s>>] # "none" => pc[<<k, "logger">>] # "none"

\* C14 (as claimed): every row the script has logged equals the table as it
\* was at some instant.
C14_RowsAreSnapshots ==
  \A n \in 2..Len(log[ScriptMain]) :
    \E table \in held : log[ScriptMain][n] = DataRow(table)

\* C17 (as claimed): what the program writes before its first start-streaming
\* command is wake bytes and nothing else, 30 of them once a command has been
\* sent, and it reads lines only after a command.
IsCommand(b) == b \in {"r\r\n", ">r\r\n"}
CommandAt(sent) == {i \in 1..Len(sent) : IsCommand(sent[i])}
BeforeCommand(sent) ==
  IF CommandAt(sent) = {}
    THEN Len(sent)
    ELSE (CHOOSE i \in CommandAt(sent) : \A j \in CommandAt(sent) : i <= j) - 1
C17_Sent(sent) ==
  /\ BeforeCommand(sent) <= WAKE_BYTES
  /\ SubSeq(sent, 1, BeforeCommand(sent)) = WakeBytes(BeforeCommand(sent))
  /\ CommandAt(sent) # {} => BeforeCommand(sent) = WAKE_BYTES
C17_ThirtyWakeBytesThenCommand ==
  /\ C17_Sent(tx[SinglePort])
  /\ pc[Single] \in {"loop", "write", "flush"} => CommandAt(tx[SinglePort]) # {}

\* C21 (as claimed): from the return of a Stop toggle's stop() until the next
\* Start toggle the stop signal is set, so that no task runs, and none is
\* launched, with the signal clear.
StoppedByToggle == session > 0 /\ ~Running
C21_StopToggleStaysStopped ==
  StoppedByToggle =>
    /\ stop_event
    /\ \A t \in Threads : Live(t) => stop_event

====
